---- MODULE Spec2Model ----
(***************************************************************************)
(* Model of cpp_core's source file discovery (get_all_source_files.py).   *)
(*                                                                         *)
(* Strings are sequences of one-character strings, so that lower(),       *)
(* startswith(), lstrip(), Path.suffix, str(Path) and the ordering used   *)
(* by sorted() are computed and not assumed.  A path is the sequence of   *)
(* its pathlib parts; an absolute path starts with the part "/".  The     *)
(* filesystem (regular files and directory symlinks) is the environment:  *)
(* it grows while no call is running, and every call of the module is     *)
(* one atomic step that reads it.                                          *)
(***************************************************************************)
EXTENDS Integers, Sequences, FiniteSets

VARIABLES
  files,    \* absolute paths of the regular files that exist
  links,    \* directory symlinks that exist (a subset of LinkUniverse)
  environ,  \* CMAKE_PROJECT_DIR and PROJECT_DIR ("" = unset), and os.getcwd()
  pc,       \* "idle", or the function the last call ran
  args,     \* the arguments of the last call
  callee,   \* the function get_all_files_std delegated to, and its project_dir
  ret       \* what the last call returned

vars == <<files, links, environ, pc, args, callee, ret>>

(***************************************************************************)
(* Bounds                                                                  *)
(***************************************************************************)
MaxEntries == 3   \* files plus symlinks the environment creates

(***************************************************************************)
(* Characters and strings                                                  *)
(***************************************************************************)
\* The characters that occur, in code point order (what str.__lt__ compares).
Alphabet ==
  <<"-", ".", "/",
    "A", "B", "C", "D", "E", "F", "G", "H", "I", "J", "K", "L", "M",
    "N", "O", "P", "Q", "R", "S", "T", "U", "V", "W", "X", "Y", "Z",
    "_",
    "a", "b", "c", "d", "e", "f", "g", "h", "i", "j", "k", "l", "m",
    "n", "o", "p", "q", "r", "s", "t", "u", "v", "w", "x", "y", "z">>

Chars == {Alphabet[i] : i \in 1..Len(Alphabet)}

Ord == [c \in Chars |-> CHOOSE i \in 1..Len(Alphabet) : Alphabet[i] = c]

\* str.lower() on one character: "A".."Z" sit 27 places before "a".."z".
LowerChar == [c \in Chars |-> IF Ord[c] \in 4..29 THEN Alphabet[Ord[c] + 27] ELSE c]

Lower(s) == [i \in 1..Len(s) |-> LowerChar[s[i]]]

StartsWith(s, pre) ==
  /\ Len(pre) <= Len(s)
  /\ SubSeq(s, 1, Len(pre)) = pre

EndsWith(s, suf) ==
  /\ Len(suf) <= Len(s)
  /\ SubSeq(s, Len(s) - Len(suf) + 1, Len(s)) = suf

\* str.lstrip(c): drop every leading c.
RECURSIVE LStrip(_, _)
LStrip(s, c) ==
  IF s # <<>> /\ Head(s) = c THEN LStrip(Tail(s), c) ELSE s

\* str < str: lexicographic by code point, a proper prefix first.
RECURSIVE StrLess(_, _)
StrLess(a, b) ==
  IF b = <<>> THEN FALSE
  ELSE IF a = <<>> THEN TRUE
  ELSE IF Head(a) = Head(b) THEN StrLess(Tail(a), Tail(b))
  ELSE Ord[Head(a)] < Ord[Head(b)]

\* list.sort(): insertion into an ascending list, duplicates kept.
RECURSIVE Insert(_, _)
Insert(x, s) ==
  IF s = <<>> THEN <<x>>
  ELSE IF StrLess(Head(s), x) THEN <<Head(s)>> \o Insert(x, Tail(s))
  ELSE <<x>> \o s

RECURSIVE sorted(_)
sorted(s) == IF s = <<>> THEN <<>> ELSE Insert(Head(s), sorted(Tail(s)))

Range(s) == {s[i] : i \in 1..Len(s)}

\* A list holding the members of a set (the order is immaterial: sorted()).
RECURSIVE SetToSeq(_)
SetToSeq(S) ==
  IF S = {} THEN <<>>
  ELSE LET x == CHOOSE y \in S : TRUE IN <<x>> \o SetToSeq(S \ {x})

RECURSIVE Concat(_)
Concat(ss) == IF ss = <<>> THEN <<>> ELSE Head(ss) \o Concat(Tail(ss))

\* The orders a directory listing can come in: every arrangement of S.
Orderings(S) ==
  {o \in [1..Cardinality(S) -> S] : \A i, j \in 1..Cardinality(S) : o[i] = o[j] => i = j}

(***************************************************************************)
(* Paths                                                                   *)
(***************************************************************************)
SLASH == <<"/">>

IsAbs(p) == p # <<>> /\ p[1] = SLASH

IsPrefix(a, b) == Len(a) <= Len(b) /\ SubSeq(b, 1, Len(a)) = a

Parent(p) == SubSeq(p, 1, Len(p) - 1)

Name(p) == p[Len(p)]

\* str(Path) of an absolute path: "/" then the parts joined by "/".
RECURSIVE Join(_)
Join(parts) ==
  IF parts = <<>> THEN <<>>
  ELSE IF Len(parts) = 1 THEN parts[1]
  ELSE parts[1] \o <<"/">> \o Join(Tail(parts))

PathStr(p) == IF IsAbs(p) THEN <<"/">> \o Join(Tail(p)) ELSE Join(p)

\* PurePath.suffix: from the last "." of the name, unless that dot is the
\* first or the last character of the name.
Suffix(name) ==
  LET dots == {i \in 1..Len(name) : name[i] = "."} IN
  IF dots = {} THEN <<>>
  ELSE LET i == CHOOSE k \in dots : \A m \in dots : m <= k IN
       IF 1 < i /\ i < Len(name) THEN SubSeq(name, i, Len(name)) ELSE <<>>

(***************************************************************************)
(* Names: directory names, file names and extensions, spelled out          *)
(***************************************************************************)
n_p == <<"p">>
n_src == <<"s", "r", "c">>
n_gen == <<"g", "e", "n">>
n_include == <<"i", "n", "c", "l", "u", "d", "e">>
n_build == <<"b", "u", "i", "l", "d">>
n_obj == <<"o", "b", "j">>
n_deps == <<"_", "d", "e", "p", "s">>
n_pio == <<".", "p", "i", "o">>
n_libdeps == <<"l", "i", "b", "d", "e", "p", "s">>
n_uno == <<"u", "n", "o">>
n_Wire == <<"W", "i", "r", "e">>
n_git == <<".", "g", "i", "t">>
n_vscode == <<".", "v", "s", "c", "o", "d", "e">>
n_idea == <<".", "i", "d", "e", "a">>
n_cache == <<".", "c", "a", "c", "h", "e">>
n_zlib_src == <<"z", "l", "i", "b", "-", "s", "r", "c">>
n_fmt == <<"f", "m", "t">>
n_hid_src == <<".", "h", "i", "d", "-", "s", "r", "c">>
n_misc == <<"m", "i", "s", "c">>
n_doc == <<"d", "o", "c">>
n_ext_src == <<"e", "x", "t", "-", "s", "r", "c">>
n_dup == <<"d", "u", "p">>
n_own_src == <<"o", "w", "n", "-", "s", "r", "c">>
n_loc == <<"l", "o", "c">>
n_ext == <<"e", "x", "t">>
n_lib == <<"l", "i", "b">>
n_nope == <<"n", "o", "p", "e">>
f_main_cpp == <<"m", "a", "i", "n", ".", "c", "p", "p">>
f_a_H == <<"a", ".", "H">>
f_foo_h == <<"f", "o", "o", ".", "h">>
f_x_h == <<"x", ".", "h">>
f_main_o == <<"m", "a", "i", "n", ".", "o">>
f_zlib_h == <<"z", "l", "i", "b", ".", "h">>
f_fmt_cc == <<"f", "m", "t", ".", "c", "c">>
f_h_h == <<"h", ".", "h">>
f_r_h == <<"r", ".", "h">>
f_Wire_h == <<"W", "i", "r", "e", ".", "h">>
f_c_h == <<"c", ".", "h">>
f_e_hpp == <<"e", ".", "h", "p", "p">>
f_README == <<"R", "E", "A", "D", "M", "E">>
e_h == <<".", "h">>
e_hpp == <<".", "h", "p", "p">>
e_cpp == <<".", "c", "p", "p">>
e_cc == <<".", "c", "c">>
e_cxx == <<".", "c", "x", "x">>
e_H_nodot == <<"H">>
e_Cpp_nodot == <<"C", "p", "p">>
e_o == <<".", "o">>
e_HPP == <<".", "H", "P", "P">>
s_src == <<"-", "s", "r", "c">>
s_empty == <<>>

(***************************************************************************)
(* The filesystem                                                          *)
(***************************************************************************)
proj == <<SLASH, n_p>>
build_deps_of(project_path) == project_path \o <<n_build, n_deps>>
pio_libdeps_of(project_path) == project_path \o <<n_pio, n_libdeps>>
extlib == <<SLASH, n_ext, n_lib>>

\* The regular files the environment may create.
FileUniverse ==
  { proj \o <<n_src, f_main_cpp>>,
    proj \o <<n_src, n_gen, f_a_H>>,
    proj \o <<n_include, f_foo_h>>,
    proj \o <<n_src, n_build, f_x_h>>,
    proj \o <<n_build, n_obj, f_main_o>>,
    proj \o <<n_cache, f_c_h>>,
    proj \o <<f_README>>,
    build_deps_of(proj) \o <<n_zlib_src, n_include, f_zlib_h>>,
    build_deps_of(proj) \o <<n_fmt, n_src, f_fmt_cc>>,
    build_deps_of(proj) \o <<n_hid_src, f_h_h>>,
    build_deps_of(proj) \o <<n_misc, n_doc, f_r_h>>,
    build_deps_of(proj) \o <<f_README>>,
    pio_libdeps_of(proj) \o <<n_uno, n_Wire, n_src, f_Wire_h>>,
    extlib \o <<n_src, f_e_hpp>> }

\* The directory symlinks the environment may create: a fetched dependency
\* that is a link to a checkout elsewhere, or to a folder of the project.
LinkUniverse ==
  { [at |-> build_deps_of(proj) \o <<n_ext_src>>, to |-> extlib],
    [at |-> build_deps_of(proj) \o <<n_dup>>, to |-> extlib],
    [at |-> build_deps_of(proj) \o <<n_own_src>>, to |-> proj \o <<n_include>>],
    [at |-> pio_libdeps_of(proj) \o <<n_uno, n_loc>>, to |-> proj \o <<n_src>>] }

ProperPrefixes(p) == {SubSeq(p, 1, k) : k \in 1..(Len(p) - 1)}

\* The real directories: every ancestor of a file or of a symlink.
Dirs ==
  {<<SLASH>>} \cup UNION {ProperPrefixes(f) : f \in files}
              \cup UNION {ProperPrefixes(l.at) : l \in links}

LinkAt == {l.at : l \in links}

\* Path.resolve(): symlinks followed; a path that does not exist is kept.
RECURSIVE Resolve(_)
Resolve(p) ==
  IF \E l \in links : IsPrefix(l.at, p)
  THEN LET l == CHOOSE k \in links : IsPrefix(k.at, p)
       IN  Resolve(l.to \o SubSeq(p, Len(l.at) + 1, Len(p)))
  ELSE p

\* Path.is_dir() and Path.exists(): both follow symlinks.
IsDir(p) == Resolve(p) \in Dirs
Exists(p) == Resolve(p) \in Dirs \cup files

\* os.path.islink()
IsLink(p) == (Resolve(Parent(p)) \o <<Name(p)>>) \in LinkAt

\* The names os.scandir() / Path.iterdir() find in directory d.
ListDir(d) ==
  LET r == Resolve(d) IN
  {Name(x) : x \in {y \in files \cup Dirs \cup LinkAt : Len(y) > 1 /\ Parent(y) = r}}

\* os.walk's split of a listing: entries that are directories (symlinks to
\* directories included), and the rest.
SubDirs(d) == {n \in ListDir(d) : IsDir(d \o <<n>>)}
NonDirs(d) == ListDir(d) \ SubDirs(d)

(***************************************************************************)
(* get_all_source_files.py                                                 *)
(***************************************************************************)
DEFAULT_EXCLUDE_DIRS == {n_pio, n_git, n_build, n_vscode, n_idea}

DEFAULT_SOURCE_EXTENSIONS == <<e_h, e_hpp, e_cpp, e_cc, e_cxx>>

\* _normalize_extensions without the lower() of line 33.
_normalize_extensions_nolower(extensions) ==
  IF extensions = <<>>
  THEN {Lower(e) : e \in Range(DEFAULT_SOURCE_EXTENSIONS)}
  ELSE {IF ~StartsWith(x, <<".">>) THEN <<".">> \o x ELSE x : x \in Range(extensions)}

\* extensions: a list of strings; None and [] are both <<>>.
_normalize_extensions(extensions) ==
  IF extensions = <<>>
  THEN {Lower(e) : e \in Range(DEFAULT_SOURCE_EXTENSIONS)}
  ELSE {LET e == Lower(x) IN IF ~StartsWith(e, <<".">>) THEN <<".">> \o e ELSE e
          : x \in Range(extensions)}

_path_has_excluded_part(path, exclude_dirs) ==
  \E i \in 1..Len(path) : path[i] \in exclude_dirs

_path_under_any(path, exclude_paths) ==
  LET resolved == Resolve(path) IN
  \E ex \in exclude_paths : IsPrefix(ex, resolved)

\* The body of the loop over os.walk(start), for the subtree at root: a
\* pruned directory contributes nothing and is not descended into; symlinked
\* directories are listed but never entered (followlinks is off).
RECURSIVE os_walk(_, _, _, _)
os_walk(root, file_extensions, exclude_dirs, combined_exclude_paths) ==
  IF _path_has_excluded_part(root, exclude_dirs) THEN <<>>
  ELSE IF combined_exclude_paths # {} /\ _path_under_any(root, combined_exclude_paths)
  THEN <<>>
  ELSE
    LET here == {PathStr(Resolve(root \o <<name>>)) :
                   name \in {n \in NonDirs(root) : Lower(Suffix(n)) \in file_extensions}}
        dirs == {d \in SubDirs(root) : d \notin exclude_dirs /\ ~IsLink(root \o <<d>>)}
        below == SetToSeq(dirs)
    IN  SetToSeq(here) \o
        Concat([i \in 1..Len(below) |->
                  os_walk(root \o <<below[i]>>, file_extensions, exclude_dirs,
                          combined_exclude_paths)])

\* _walk_for_files without the fallback of lines 95-96.
_walk_for_files_nofallback(root_path_arg, file_extensions, include_folders, exclude_dirs, exclude_paths) ==
  LET root_path == Resolve(root_path_arg) IN
  IF ~Exists(root_path) \/ ~IsDir(root_path) THEN <<>>
  ELSE
    LET combined_exclude_paths == {Resolve(q) : q \in exclude_paths}
        subs == [i \in 1..Len(include_folders) |->
                   IF ~IsAbs(include_folders[i]) THEN root_path \o include_folders[i]
                   ELSE include_folders[i]]
        found == SelectSeq(subs, LAMBDA sub : Exists(sub) /\ IsDir(sub))
        roots_to_walk == IF include_folders # <<>> THEN found ELSE <<root_path>>
        result == Concat([i \in 1..Len(roots_to_walk) |->
                            os_walk(roots_to_walk[i], file_extensions, exclude_dirs,
                                    combined_exclude_paths)])
    IN  sorted(result)

\* include_folders: a list of paths (None and [] are <<>>); exclude_paths: a
\* set of paths (None and set() are {}).
_walk_for_files(root_path_arg, file_extensions, include_folders, exclude_dirs, exclude_paths) ==
  LET root_path == Resolve(root_path_arg) IN
  IF ~Exists(root_path) \/ ~IsDir(root_path) THEN <<>>
  ELSE
    LET combined_exclude_paths == {Resolve(q) : q \in exclude_paths}
        subs == [i \in 1..Len(include_folders) |->
                   IF ~IsAbs(include_folders[i]) THEN root_path \o include_folders[i]
                   ELSE include_folders[i]]
        found == SelectSeq(subs, LAMBDA sub : Exists(sub) /\ IsDir(sub))
        roots_to_walk == IF include_folders # <<>> /\ found # <<>> THEN found
                         ELSE <<root_path>>
        result == Concat([i \in 1..Len(roots_to_walk) |->
                            os_walk(roots_to_walk[i], file_extensions, exclude_dirs,
                                    combined_exclude_paths)])
    IN  sorted(result)

\* Path.iterdir() of d when the filesystem lists names in the order `order`.
iterdir(d, order) == SelectSeq(order, LAMBDA n : n \in ListDir(d))

\* desktop_loop without the `seen` test of lines 146, 151 and 156.
RECURSIVE desktop_loop_nodedup(_, _, _, _)
desktop_loop_nodedup(build_deps, entries, libraries, seen) ==
  IF entries = <<>> THEN libraries
  ELSE
    LET name == Head(entries)
        lib_dir == build_deps \o <<name>>
        take == desktop_loop_nodedup(build_deps, Tail(entries),
                                     Append(libraries, Resolve(lib_dir)), seen)
        skip == desktop_loop_nodedup(build_deps, Tail(entries), libraries, seen)
    IN  IF ~IsDir(lib_dir) \/ StartsWith(name, <<".">>) THEN skip
        ELSE IF EndsWith(name, s_src) THEN take
        ELSE IF Exists(lib_dir \o <<n_include>>) /\ IsDir(lib_dir \o <<n_include>>) THEN take
        ELSE IF Exists(lib_dir \o <<n_src>>) /\ IsDir(lib_dir \o <<n_src>>) THEN take
        ELSE skip

\* One pass of the loop over build_deps.iterdir(): libraries so far, seen so far.
RECURSIVE desktop_loop(_, _, _, _)
desktop_loop(build_deps, entries, libraries, seen) ==
  IF entries = <<>> THEN libraries
  ELSE
    LET name == Head(entries)
        lib_dir == build_deps \o <<name>>
        lib_root == Resolve(lib_dir)
        take == IF PathStr(lib_root) \notin seen
                THEN desktop_loop(build_deps, Tail(entries),
                                  Append(libraries, lib_root), seen \cup {PathStr(lib_root)})
                ELSE desktop_loop(build_deps, Tail(entries), libraries, seen)
        skip == desktop_loop(build_deps, Tail(entries), libraries, seen)
    IN  IF ~IsDir(lib_dir) \/ StartsWith(name, <<".">>) THEN skip
        ELSE IF EndsWith(name, s_src) THEN take
        ELSE IF Exists(lib_dir \o <<n_include>>) /\ IsDir(lib_dir \o <<n_include>>) THEN take
        ELSE IF Exists(lib_dir \o <<n_src>>) /\ IsDir(lib_dir \o <<n_src>>) THEN take
        ELSE skip

\* What Path.iterdir() raises on a directory that is not there.
FileNotFoundError == <<"FileNotFoundError">>

\* _discover_libraries_desktop without the guard of lines 137-138: iterdir()
\* of a missing build/_deps raises.
_discover_libraries_desktop_noguard(project_dir, order) ==
  LET project_path == Resolve(project_dir)
      build_deps == build_deps_of(project_path)
  IN  IF ~Exists(build_deps) \/ ~IsDir(build_deps) THEN FileNotFoundError
      ELSE desktop_loop(build_deps, iterdir(build_deps, order), <<>>, {})

_discover_libraries_desktop(project_dir, order) ==
  LET project_path == Resolve(project_dir)
      build_deps == build_deps_of(project_path)
  IN  IF ~Exists(build_deps) \/ ~IsDir(build_deps) THEN <<>>
      ELSE desktop_loop(build_deps, iterdir(build_deps, order), <<>>, {})

\* The inner loop over env_dir.iterdir().  `seen` holds str() of exactly the
\* members of `libraries`, so membership in libraries stands for it.
RECURSIVE arduino_lib_loop(_, _, _)
arduino_lib_loop(env_dir, entries, libraries) ==
  IF entries = <<>> THEN libraries
  ELSE
    LET lib_dir == env_dir \o <<Head(entries)>>
        lib_root == Resolve(lib_dir)
    IN  IF ~IsDir(lib_dir) THEN arduino_lib_loop(env_dir, Tail(entries), libraries)
        ELSE IF lib_root \notin Range(libraries)
        THEN arduino_lib_loop(env_dir, Tail(entries), Append(libraries, lib_root))
        ELSE arduino_lib_loop(env_dir, Tail(entries), libraries)

\* The outer loop over pio_libdeps.iterdir().
RECURSIVE arduino_env_loop(_, _, _, _)
arduino_env_loop(pio_libdeps, envs, order, libraries) ==
  IF envs = <<>> THEN libraries
  ELSE
    LET env_dir == pio_libdeps \o <<Head(envs)>> IN
    IF ~IsDir(env_dir) THEN arduino_env_loop(pio_libdeps, Tail(envs), order, libraries)
    ELSE arduino_env_loop(pio_libdeps, Tail(envs), order,
                          arduino_lib_loop(env_dir, iterdir(env_dir, order), libraries))

_discover_libraries_arduino(project_dir, order) ==
  LET project_path == Resolve(project_dir)
      pio_libdeps == pio_libdeps_of(project_path)
  IN  IF ~Exists(pio_libdeps) \/ ~IsDir(pio_libdeps) THEN <<>>
      ELSE arduino_env_loop(pio_libdeps, iterdir(pio_libdeps, order), order, <<>>)

\* exclude_dir_set of get_all_files_desktop / get_all_files_arduino.
exclude_dir_set(exclude_dirs, exclude_folders) ==
  DEFAULT_EXCLUDE_DIRS
    \cup {IF StartsWith(d, <<".">>) THEN LStrip(d, ".") ELSE d : d \in Range(exclude_dirs)}
    \cup {IF f # <<>> THEN f[1] ELSE s_empty : f \in Range(exclude_folders)}

\* exclude_paths of get_all_files_desktop / get_all_files_arduino.
exclude_path_set(project_path, exclude_folders) ==
  {IF IsAbs(f) THEN Resolve(f) ELSE Resolve(project_path \o f) : f \in Range(exclude_folders)}

\* collect with all_paths a list extended by each walk, not a set.
collect_list(project_dir, a, libraries) ==
  LET project_path == Resolve(project_dir)
      ext_set == _normalize_extensions(a.file_extensions)
      exclude_dirs == exclude_dir_set(a.exclude_dirs, a.exclude_folders)
      exclude_paths == exclude_path_set(project_path, a.exclude_folders)
      project_files == _walk_for_files(project_path, ext_set, a.include_folders,
                                       exclude_dirs, exclude_paths)
      lib_files == [i \in 1..Len(libraries) |->
                      _walk_for_files(libraries[i], ext_set, a.include_folders,
                                      exclude_dirs, {})]
  IN  sorted(project_files \o (IF a.include_libraries THEN Concat(lib_files) ELSE <<>>))

\* Project walk, then one walk per library root; the union, sorted.
collect(project_dir, a, libraries) ==
  LET project_path == Resolve(project_dir)
      ext_set == _normalize_extensions(a.file_extensions)
      exclude_dirs == exclude_dir_set(a.exclude_dirs, a.exclude_folders)
      exclude_paths == exclude_path_set(project_path, a.exclude_folders)
      project_files == _walk_for_files(project_path, ext_set, a.include_folders,
                                       exclude_dirs, exclude_paths)
      lib_files == [i \in 1..Len(libraries) |->
                      _walk_for_files(libraries[i], ext_set, a.include_folders,
                                      exclude_dirs, {})]
      all_paths == Range(project_files) \cup
                   (IF a.include_libraries THEN Range(Concat(lib_files)) ELSE {})
  IN  sorted(SetToSeq(all_paths))

get_all_files_desktop(project_dir, a, order) ==
  collect(project_dir, a, _discover_libraries_desktop(project_dir, order))

get_all_files_arduino(project_dir, a, order) ==
  collect(project_dir, a, _discover_libraries_arduino(project_dir, order))

\* _is_cmake_build asking for PROJECT_DIR before CMAKE_PROJECT_DIR.
_is_cmake_build_piofirst(project_dir) ==
  IF environ.PROJECT_DIR # <<>> THEN FALSE
  ELSE IF environ.CMAKE_PROJECT_DIR # <<>> THEN TRUE
  ELSE IF project_dir # <<>> /\ Exists(build_deps_of(Resolve(project_dir))) THEN TRUE
  ELSE IF project_dir # <<>> /\ Exists(pio_libdeps_of(Resolve(project_dir))) THEN FALSE
  ELSE TRUE

\* os.environ.get(k): "" when the variable is unset or empty.
_is_cmake_build(project_dir) ==
  IF environ.CMAKE_PROJECT_DIR # <<>> THEN TRUE
  ELSE IF environ.PROJECT_DIR # <<>> THEN FALSE
  ELSE IF project_dir # <<>> /\ Exists(build_deps_of(Resolve(project_dir))) THEN TRUE
  ELSE IF project_dir # <<>> /\ Exists(pio_libdeps_of(Resolve(project_dir))) THEN FALSE
  ELSE TRUE

\* The project directory get_all_files_std settles on.
std_project_dir(project_dir) ==
  LET fromenv == IF project_dir # <<>> THEN project_dir
                 ELSE IF environ.CMAKE_PROJECT_DIR # <<>> THEN environ.CMAKE_PROJECT_DIR
                 ELSE environ.PROJECT_DIR
  IN  IF fromenv # <<>> THEN fromenv ELSE environ.cwd

(***************************************************************************)
(* Steps                                                                   *)
(***************************************************************************)
NoArgs == [none |-> TRUE]
NoCallee == [fn |-> "none", project_dir |-> <<>>]
NoEnviron == [CMAKE_PROJECT_DIR |-> <<>>, PROJECT_DIR |-> <<>>, cwd |-> proj]

Init ==
  /\ files = {}
  /\ links = {}
  /\ environ = NoEnviron
  /\ pc = "idle"
  /\ args = NoArgs
  /\ callee = NoCallee
  /\ ret = <<>>

\* The environment creates a file of U (its directories with it).
CreateFile(U) ==
  /\ pc = "idle"
  /\ Cardinality(files) + Cardinality(links) < MaxEntries
  /\ \E f \in U \ files : files' = files \cup {f}
  /\ UNCHANGED <<links, environ, pc, args, callee, ret>>

\* The environment creates a directory symlink of U.
CreateLink(U) ==
  /\ pc = "idle"
  /\ Cardinality(files) + Cardinality(links) < MaxEntries
  /\ \E l \in U \ links : links' = links \cup {l}
  /\ UNCHANGED <<files, environ, pc, args, callee, ret>>

\* The caller's shell sets the environment variables and the working directory.
SetEnviron(U) ==
  /\ pc = "idle"
  /\ \E e \in U \ {environ} : environ' = e
  /\ UNCHANGED <<files, links, pc, args, callee, ret>>

\* The names a listing of the dependency caches of project_dir can hold, and
\* the orders the filesystem may list them in.
DepNames(project_dir) ==
  LET d == build_deps_of(Resolve(project_dir))
      q == pio_libdeps_of(Resolve(project_dir))
  IN  ListDir(d) \cup ListDir(q) \cup UNION {ListDir(q \o <<e>>) : e \in ListDir(q)}

ListingOrders(project_dir) == Orderings(DepNames(project_dir))

Call_walk_for_files(A) ==
  /\ pc = "idle"
  /\ \E a \in A :
       /\ args' = a
       /\ ret' = _walk_for_files(a.root_path, a.file_extensions, a.include_folders,
                                 a.exclude_dirs, a.exclude_paths)
  /\ pc' = "_walk_for_files"
  /\ UNCHANGED <<files, links, environ, callee>>

Call_discover_libraries_desktop(PD) ==
  /\ pc = "idle"
  /\ \E d \in PD : \E order \in ListingOrders(d) :
       /\ args' = [project_dir |-> d]
       /\ ret' = _discover_libraries_desktop(d, order)
  /\ pc' = "_discover_libraries_desktop"
  /\ UNCHANGED <<files, links, environ, callee>>

Call_discover_libraries_arduino(PD) ==
  /\ pc = "idle"
  /\ \E d \in PD : \E order \in ListingOrders(d) :
       /\ args' = [project_dir |-> d]
       /\ ret' = _discover_libraries_arduino(d, order)
  /\ pc' = "_discover_libraries_arduino"
  /\ UNCHANGED <<files, links, environ, callee>>

Call_get_all_files_desktop(A) ==
  /\ pc = "idle"
  /\ \E a \in A : \E order \in ListingOrders(a.project_dir) :
       /\ args' = a
       /\ ret' = get_all_files_desktop(a.project_dir, a, order)
  /\ pc' = "get_all_files_desktop"
  /\ UNCHANGED <<files, links, environ, callee>>

Call_get_all_files_arduino(A) ==
  /\ pc = "idle"
  /\ \E a \in A : \E order \in ListingOrders(a.project_dir) :
       /\ args' = a
       /\ ret' = get_all_files_arduino(a.project_dir, a, order)
  /\ pc' = "get_all_files_arduino"
  /\ UNCHANGED <<files, links, environ, callee>>

\* get_all_files_std: settle the project directory, pick the flavor, delegate.
Call_get_all_files_std(A) ==
  /\ pc = "idle"
  /\ \E a \in A :
       LET project_dir == std_project_dir(a.project_dir) IN
       \E order \in ListingOrders(project_dir) :
         /\ args' = a
         /\ IF _is_cmake_build(project_dir)
            THEN /\ callee' = [fn |-> "get_all_files_desktop", project_dir |-> project_dir]
                 /\ ret' = get_all_files_desktop(project_dir, a, order)
            ELSE /\ callee' = [fn |-> "get_all_files_arduino", project_dir |-> project_dir]
                 /\ ret' = get_all_files_arduino(project_dir, a, order)
  /\ pc' = "get_all_files_std"
  /\ UNCHANGED <<files, links, environ>>

\* The call is over; the caller has the list.
Return ==
  /\ pc # "idle"
  /\ pc' = "idle"
  /\ args' = NoArgs
  /\ callee' = NoCallee
  /\ ret' = <<>>
  /\ UNCHANGED <<files, links, environ>>

(***************************************************************************)
(* Arguments                                                               *)
(***************************************************************************)
\* What the optional parameters default to (None, and include_libraries=True).
Defaults ==
  [file_extensions |-> <<>>, include_folders |-> <<>>, exclude_folders |-> <<>>,
   exclude_dirs |-> <<>>, include_libraries |-> TRUE]

\* The arguments of a call of get_all_files_desktop / _arduino / _std.
CallArgs(PD, EXT, INC, EXF, EXD, LIBS) ==
  [project_dir : PD, file_extensions : EXT, include_folders : INC,
   exclude_folders : EXF, exclude_dirs : EXD, include_libraries : LIBS]

p_zlib_h == build_deps_of(proj) \o <<n_zlib_src, n_include, f_zlib_h>>
p_Wire_h == pio_libdeps_of(proj) \o <<n_uno, n_Wire, n_src, f_Wire_h>>
p_main_cpp == proj \o <<n_src, f_main_cpp>>
p_a_H == proj \o <<n_src, n_gen, f_a_H>>
p_foo_h == proj \o <<n_include, f_foo_h>>
p_x_h == proj \o <<n_src, n_build, f_x_h>>
p_main_o == proj \o <<n_build, n_obj, f_main_o>>
p_c_h == proj \o <<n_cache, f_c_h>>
p_e_hpp == extlib \o <<n_src, f_e_hpp>>

(***************************************************************************)
(* Spec: projects with libraries, collected by both flavors                *)
(***************************************************************************)
LibFiles == {p_main_cpp, p_a_H, p_foo_h, p_zlib_h, p_Wire_h, p_e_hpp}

LibArgs ==
  CallArgs({proj}, {<<>>, <<e_H_nodot, e_Cpp_nodot>>},
           {<<>>, <<<<n_src>>>>, <<<<n_src>>, <<n_src, n_gen>>>>},
           {<<>>}, {<<>>}, BOOLEAN)

Next ==
  \/ CreateFile(LibFiles)
  \/ CreateLink(LinkUniverse)
  \/ Call_get_all_files_desktop(LibArgs)
  \/ Call_get_all_files_arduino(LibArgs)
  \/ Return

Spec == Init /\ [][Next]_vars

Collected == pc \in {"get_all_files_desktop", "get_all_files_arduino"}

\* C1: the list get_all_files_desktop and get_all_files_arduino return is
\* strictly ascending by path string: sorted, and no path twice.
C1_SortedUnique ==
  Collected => \A i \in 1..(Len(ret) - 1) : StrLess(ret[i], ret[i + 1])

\* The project walk alone returns a path twice (overlapping include_folders),
\* and the call returns at least two paths.
C1_Witness ==
  /\ Collected
  /\ Len(ret) >= 2
  /\ LET w == _walk_for_files(args.project_dir, _normalize_extensions(args.file_extensions),
                              args.include_folders, DEFAULT_EXCLUDE_DIRS, {})
     IN  Len(w) > Cardinality(Range(w))

\* A file the walk keeps if it reaches the file's directory: its extension is
\* allowed, no directory on its path is named in exclude_dirs, and it is
\* under none of exclude_paths.
Matches(f, ext_set) == Lower(Suffix(Name(f))) \in ext_set

NoNamedDir(f, from, names) == \A i \in from..(Len(f) - 1) : f[i] \notin names

Returned(f) == PathStr(f) \in Range(ret)

\* C5: with include_libraries, get_all_files_desktop returns every matching
\* file under a library root found in build/_deps, get_all_files_arduino every
\* matching file under a library root .pio/libdeps/<env>/<lib>, and
\* get_all_files_desktop does not return the .pio/libdeps file.
C5_LibraryFilesReturned ==
  /\ (pc = "get_all_files_desktop" /\ args.include_libraries /\ args.include_folders = <<>>) =>
       /\ \A order \in ListingOrders(args.project_dir) :
          \A lib \in Range(_discover_libraries_desktop(args.project_dir, order)) :
          \A f \in files :
            (/\ IsPrefix(lib, f)
             /\ Matches(f, _normalize_extensions(args.file_extensions))
             /\ NoNamedDir(f, Len(lib) + 1, DEFAULT_EXCLUDE_DIRS)) => Returned(f)
       /\ ~Returned(p_Wire_h)
  /\ (pc = "get_all_files_arduino" /\ args.include_libraries /\ args.include_folders = <<>>) =>
       \A order \in ListingOrders(args.project_dir) :
       \A lib \in Range(_discover_libraries_arduino(args.project_dir, order)) :
       \A f \in files :
         (/\ IsPrefix(lib, f)
          /\ Matches(f, _normalize_extensions(args.file_extensions))
          /\ NoNamedDir(f, Len(lib) + 1, DEFAULT_EXCLUDE_DIRS)) => Returned(f)

(***************************************************************************)
(* SpecExt: the extension filter                                           *)
(***************************************************************************)
p_README == proj \o <<f_README>>

ExtFiles == {p_main_cpp, p_a_H, p_foo_h, p_x_h, p_main_o, p_README}

ExtArgs ==
  CallArgs({proj},
           {<<>>, <<e_H_nodot>>, <<e_Cpp_nodot, e_HPP>>, <<e_o>>, <<s_empty>>, <<e_h, e_H_nodot>>},
           {<<>>, <<<<n_src>>>>},
           {<<>>}, {<<>>}, {TRUE})

NextExt ==
  \/ CreateFile(ExtFiles)
  \/ Call_get_all_files_desktop(ExtArgs)
  \/ Call_get_all_files_arduino(ExtArgs)
  \/ Return

SpecExt == Init /\ [][NextExt]_vars

\* The directories the project walk of the last call starts from.
Starts ==
  LET root == Resolve(args.project_dir)
      named == {IF IsAbs(q) THEN q ELSE root \o q : q \in Range(args.include_folders)}
      found == {q \in named : q \in Dirs}
  IN  IF found = {} THEN {root} ELSE found

\* The directories that walk visits without pruning them (no symlinks here):
\* at or below a start, with no part named in the default exclude names.
Unpruned ==
  {d \in Dirs : /\ \E q \in Starts : IsPrefix(q, d)
                /\ \A i \in 1..Len(d) : d[i] \notin DEFAULT_EXCLUDE_DIRS}

IsLowerDotted(e) ==
  /\ e # <<>>
  /\ e[1] = "."
  /\ \A i \in 1..Len(e) : Ord[e[i]] \notin 4..29

\* C2: _normalize_extensions gives the default set for None or [] and never
\* an empty set, and otherwise only lowercase members that start with ".";
\* a file directly in a directory the walk visits without pruning is returned
\* if and only if its lowercased suffix is in the normalized set, so also
\* when the caller wrote the extension without the dot or in another case.
C2_ExtensionFilter ==
  Collected =>
    LET ext_set == _normalize_extensions(args.file_extensions) IN
    /\ ext_set # {}
    /\ args.file_extensions = <<>> => ext_set = {e_h, e_hpp, e_cpp, e_cc, e_cxx}
    /\ args.file_extensions # <<>> => \A e \in ext_set : IsLowerDotted(e)
    /\ \A f \in files :
         Parent(f) \in Unpruned => (Returned(f) <=> Lower(Suffix(Name(f))) \in ext_set)
    /\ \A f \in files : \A x \in Range(args.file_extensions) :
         (/\ Parent(f) \in Unpruned
          /\ Suffix(Name(f)) # <<>>
          /\ Lower(Suffix(Name(f))) \in {Lower(x), <<".">> \o Lower(x)}) => Returned(f)

\* The caller wrote "H": a.H is returned, and main.cpp beside it is not.
C2_Witness ==
  /\ Collected
  /\ args.file_extensions = <<e_H_nodot>>
  /\ Returned(p_a_H)
  /\ p_main_cpp \in files
  /\ Parent(p_main_cpp) \in Unpruned
  /\ ~Returned(p_main_cpp)

(***************************************************************************)
(* SpecExclude: exclusion by name and by path                              *)
(***************************************************************************)
zlib_src == build_deps_of(proj) \o <<n_zlib_src>>

ExcludeFiles == {p_main_cpp, p_a_H, p_foo_h, p_x_h, p_main_o, p_c_h, p_zlib_h}

ExcludeArgs ==
  CallArgs({proj, zlib_src}, {<<>>}, {<<>>},
           {<<>>, <<<<n_src, n_gen>>>>, <<<<n_include>>>>, <<proj \o <<n_include>>>>},
           {<<>>, <<n_cache>>, <<n_gen>>},
           {TRUE})

NextExclude ==
  \/ CreateFile(ExcludeFiles)
  \/ Call_get_all_files_desktop(ExcludeArgs)
  \/ Call_get_all_files_arduino(ExcludeArgs)
  \/ Return

SpecExclude == Init /\ [][NextExclude]_vars

\* C3: with the default exclude names, no file beneath a directory of such a
\* name at any depth below the project root is returned, and every matching
\* file whose directories below the root carry no such name is returned.
C3_ExcludeByName ==
  (Collected /\ args.exclude_dirs = <<>> /\ args.exclude_folders = <<>>) =>
    LET root == Resolve(args.project_dir) IN
    \A f \in files :
      IsPrefix(root, f) =>
        /\ ~NoNamedDir(f, Len(root) + 1, DEFAULT_EXCLUDE_DIRS) => ~Returned(f)
        /\ (/\ NoNamedDir(f, Len(root) + 1, DEFAULT_EXCLUDE_DIRS)
            /\ Matches(f, _normalize_extensions(args.file_extensions))) => Returned(f)

\* The project root's own path carries no default exclude name.
PlainRoot ==
  LET root == Resolve(args.project_dir) IN
  \A i \in 1..Len(root) : root[i] \notin DEFAULT_EXCLUDE_DIRS

\* C4: with exclude_folders = [P], no file in or beneath P is returned, and
\* every matching file that is neither under P nor under a directory with a
\* default or caller-given exclude name is returned.
C4_ExcludeByPath ==
  (Collected /\ PlainRoot /\ Len(args.exclude_folders) = 1) =>
    LET root == Resolve(args.project_dir)
        P == IF IsAbs(args.exclude_folders[1]) THEN args.exclude_folders[1]
             ELSE root \o args.exclude_folders[1]
    IN  \A f \in files :
          IsPrefix(root, f) =>
            /\ IsPrefix(P, f) => ~Returned(f)
            /\ (/\ ~IsPrefix(P, f)
                /\ NoNamedDir(f, Len(root) + 1,
                              DEFAULT_EXCLUDE_DIRS \cup Range(args.exclude_dirs))
                /\ Matches(f, _normalize_extensions(args.file_extensions))) => Returned(f)

\* C6: the names used for pruning are the default names, the exclude_dirs
\* names as given and the first segment of each exclude_folders entry; no
\* file beneath a directory with a name given in exclude_dirs is returned
\* (stated of every call on a project that holds such a file).
C6_ExcludeNames ==
  (Collected /\ PlainRoot) =>
    LET root == Resolve(args.project_dir) IN
    \A f \in files :
      (IsPrefix(root, f) /\ ~NoNamedDir(f, Len(root) + 1, Range(args.exclude_dirs))) =>
        /\ exclude_dir_set(args.exclude_dirs, args.exclude_folders)
             = DEFAULT_EXCLUDE_DIRS \cup Range(args.exclude_dirs)
                 \cup {q[1] : q \in Range(args.exclude_folders)}
        /\ ~Returned(f)

(***************************************************************************)
(* SpecWalk: _walk_for_files called directly                               *)
(***************************************************************************)
WalkFiles == {p_main_cpp, p_a_H, p_foo_h, p_x_h, p_main_o, p_README}

WalkArgs ==
  [root_path : {proj},
   file_extensions : {{e_h, e_hpp, e_cpp, e_cc, e_cxx}, {e_h}},
   include_folders : {<<>>, <<<<n_src>>>>, <<<<n_nope>>>>, <<<<n_nope>>, <<n_include>>>>,
                      <<proj \o <<n_src, n_gen>>>>, <<<<n_build>>>>, <<<<f_README>>>>,
                      <<<<n_src>>, <<n_src, n_gen>>>>},
   exclude_dirs : {DEFAULT_EXCLUDE_DIRS},
   exclude_paths : {{}, {proj \o <<n_src, n_gen>>}}]

NextWalk ==
  \/ CreateFile(WalkFiles)
  \/ Call_walk_for_files(WalkArgs)
  \/ Return

SpecWalk == Init /\ [][NextWalk]_vars

\* The files under directory d that a walk with the last call's filters keeps.
KeptUnder(d) ==
  {f \in files : /\ IsPrefix(d, f)
                 /\ Matches(f, args.file_extensions)
                 /\ NoNamedDir(f, 1, args.exclude_dirs)
                 /\ ~\E q \in args.exclude_paths : IsPrefix(q, f)}

\* The named subfolders of the last call that exist as directories.
NamedFound ==
  LET root == Resolve(args.root_path) IN
  {q \in {IF IsAbs(x) THEN x ELSE root \o x : x \in Range(args.include_folders)} : q \in Dirs}

StdFiles == {p_main_cpp, p_zlib_h, p_Wire_h, p_e_hpp}

StdLinks == {l \in LinkUniverse : Name(l.at) \in {n_ext_src, n_loc}}

StdEnviron ==
  [CMAKE_PROJECT_DIR : {<<>>, proj, extlib},
   PROJECT_DIR : {<<>>, proj, extlib},
   cwd : {proj, extlib}]

StdArgs == CallArgs({<<>>, proj, extlib}, {<<>>}, {<<>>}, {<<>>}, {<<>>}, {TRUE})

NextStd ==
  \/ CreateFile(StdFiles)
  \/ CreateLink(StdLinks)
  \/ SetEnviron(StdEnviron)
  \/ Call_get_all_files_std(StdArgs)
  \/ Return

SpecStd == Init /\ [][NextStd]_vars

\* C8: get_all_files_std uses the explicit project directory, else
\* CMAKE_PROJECT_DIR, else PROJECT_DIR, else the working directory; it is
\* desktop when CMAKE_PROJECT_DIR is set, embedded when only PROJECT_DIR is,
\* and otherwise desktop if build/_deps exists, else embedded if .pio/libdeps
\* exists, else desktop; it returns what that function returns for that
\* directory and the same remaining arguments.
C8_Dispatch ==
  pc = "get_all_files_std" =>
    LET cmake == environ.CMAKE_PROJECT_DIR
        pio == environ.PROJECT_DIR
        dir == IF args.project_dir # <<>> THEN args.project_dir
               ELSE IF cmake # <<>> THEN cmake
               ELSE IF pio # <<>> THEN pio
               ELSE environ.cwd
        desktop == IF cmake # <<>> THEN TRUE
                   ELSE IF pio # <<>> THEN FALSE
                   ELSE IF build_deps_of(dir) \in Dirs \cup files THEN TRUE
                   ELSE pio_libdeps_of(dir) \notin Dirs \cup files
    IN  /\ callee.project_dir = dir
        /\ callee.fn = IF desktop THEN "get_all_files_desktop" ELSE "get_all_files_arduino"
        /\ \A order \in ListingOrders(dir) :
             ret = IF desktop THEN get_all_files_desktop(dir, args, order)
                   ELSE get_all_files_arduino(dir, args, order)

\* Both variables are set, to different directories, no directory is passed:
\* the desktop collection of CMAKE_PROJECT_DIR comes back, with a file in it.
C8_Witness ==
  /\ pc = "get_all_files_std"
  /\ args.project_dir = <<>>
  /\ environ.CMAKE_PROJECT_DIR = proj
  /\ environ.PROJECT_DIR = extlib
  /\ callee = [fn |-> "get_all_files_desktop", project_dir |-> proj]
  /\ ret # <<>>

(***************************************************************************)
(* SpecMissing: directories that are not there                             *)
(***************************************************************************)
MissingFiles == {p_main_cpp, p_foo_h, p_zlib_h, p_Wire_h, p_e_hpp}

MissingLinks == {l \in LinkUniverse : Name(l.at) \in {n_ext_src, n_loc}}

\* A project, a directory that is never created, a path that is a file, and
\* a directory outside the project.
MissingDirs == {proj, proj \o <<n_nope>>, p_main_cpp, extlib}

MissingWalkArgs ==
  [root_path : MissingDirs,
   file_extensions : {{e_h, e_hpp, e_cpp, e_cc, e_cxx}},
   include_folders : {<<>>, <<<<n_src>>>>},
   exclude_dirs : {DEFAULT_EXCLUDE_DIRS},
   exclude_paths : {{}}]

MissingArgs == CallArgs(MissingDirs, {<<>>}, {<<>>, <<<<n_src>>>>}, {<<>>}, {<<>>}, BOOLEAN)

NextMissing ==
  \/ CreateFile(MissingFiles)
  \/ CreateLink(MissingLinks)
  \/ Call_walk_for_files(MissingWalkArgs)
  \/ Call_discover_libraries_desktop(MissingDirs)
  \/ Call_discover_libraries_arduino(MissingDirs)
  \/ Call_get_all_files_desktop(MissingArgs)
  \/ Call_get_all_files_arduino(MissingArgs)
  \/ Return

SpecMissing == Init /\ [][NextMissing]_vars

\* The project walk of the last get_all_files_desktop / _arduino call.
ProjectWalk ==
  _walk_for_files(args.project_dir, _normalize_extensions(args.file_extensions),
                  args.include_folders,
                  exclude_dir_set(args.exclude_dirs, args.exclude_folders),
                  exclude_path_set(Resolve(args.project_dir), args.exclude_folders))

\* C9: _walk_for_files returns [] for a root that is no directory; the
\* discoverers return [] when build/_deps, respectively .pio/libdeps, is
\* absent; get_all_files_desktop and get_all_files_arduino return [] for a
\* project_dir that is no directory, and for a project without a dependency
\* cache exactly the files of the project walk.
C9_MissingIsEmpty ==
  /\ (pc = "_walk_for_files" /\ Resolve(args.root_path) \notin Dirs) => ret = <<>>
  /\ (pc = "_discover_libraries_desktop"
        /\ build_deps_of(Resolve(args.project_dir)) \notin Dirs) => ret = <<>>
  /\ (pc = "_discover_libraries_arduino"
        /\ pio_libdeps_of(Resolve(args.project_dir)) \notin Dirs) => ret = <<>>
  /\ (Collected /\ Resolve(args.project_dir) \notin Dirs) => ret = <<>>
  /\ (pc = "get_all_files_desktop" /\ Resolve(args.project_dir) \in Dirs
        /\ build_deps_of(Resolve(args.project_dir)) \notin Dirs) => ret = ProjectWalk
  /\ (pc = "get_all_files_arduino" /\ Resolve(args.project_dir) \in Dirs
        /\ pio_libdeps_of(Resolve(args.project_dir)) \notin Dirs) => ret = ProjectWalk

\* A project with files and no build/_deps: get_all_files_desktop returns them.
C9_Witness ==
  /\ pc = "get_all_files_desktop"
  /\ args.project_dir = proj
  /\ args.include_libraries
  /\ build_deps_of(proj) \notin Dirs
  /\ pio_libdeps_of(proj) \in Dirs
  /\ Len(ret) >= 2

(***************************************************************************)
(* SpecDiscover: _discover_libraries_desktop under every listing order     *)
(***************************************************************************)
DiscoverFiles ==
  {f \in FileUniverse : IsPrefix(build_deps_of(proj), f)} \cup {p_foo_h, p_e_hpp}

DiscoverLinks == {l \in LinkUniverse : IsPrefix(build_deps_of(proj), l.at)}

NextDiscover ==
  \/ CreateFile(DiscoverFiles)
  \/ CreateLink(DiscoverLinks)
  \/ Call_discover_libraries_desktop({proj})
  \/ Return

SpecDiscover == Init /\ [][NextDiscover]_vars

\* The children of build/_deps that the claim names as library roots.
LibraryChildren ==
  LET build_deps == build_deps_of(Resolve(args.project_dir)) IN
  {n \in ListDir(build_deps) :
     /\ IsDir(build_deps \o <<n>>)
     /\ n[1] # "."
     /\ \/ EndsWith(n, s_src)
        \/ IsDir(build_deps \o <<n, n_include>>)
        \/ IsDir(build_deps \o <<n, n_src>>)}

\* C10: _discover_libraries_desktop returns exactly the child directories of
\* build/_deps that are not hidden and either end in "-src" or hold include/
\* or src/, the child itself, each canonical path once; every listing order
\* gives the same set.
C10_DesktopDiscovery ==
  pc = "_discover_libraries_desktop" =>
    LET build_deps == build_deps_of(Resolve(args.project_dir)) IN
    /\ Range(ret) = {Resolve(build_deps \o <<n>>) : n \in LibraryChildren}
    /\ Cardinality(Range(ret)) = Len(ret)
    /\ \A order \in ListingOrders(args.project_dir) :
         Range(_discover_libraries_desktop(args.project_dir, order)) = Range(ret)

\* Two children of build/_deps are links to the same checkout: it is
\* returned once, beside another library.
C10_Witness ==
  /\ pc = "_discover_libraries_desktop"
  /\ Cardinality({l \in links : l.to = extlib}) = 2
  /\ p_e_hpp \in files
  /\ Len(ret) = 1
  /\ ret[1] = extlib

====
